---- MODULE Spec2Model ----
(***************************************************************************)
(* A model of dycw/pre-commit-hooks:                                       *)
(*   - the version gate (class Version, check_versions, _process), with    *)
(*     the parsing of the two files, the baseline cache and its use by     *)
(*     several processes;                                                  *)
(*   - the structural comparator check_value_or_values and freeze;         *)
(*   - the synchronisation of a local file with its remote copy;           *)
(*   - the loops of the three main functions over their filenames, and     *)
(*     process_file with its eight tools.                                  *)
(* Every specification below draws the inputs of one of these parts in     *)
(* its initial states and applies the code of that part in its actions;    *)
(* the variables of the other parts stay at their idle values.             *)
(***************************************************************************)
EXTENDS Integers, Sequences, FiniteSets, Bags, TLC

VARIABLES
    file,       \* the Version recorded in the local file (.bumpversion.cfg)
    current,    \* the Version _process parsed from the local file
    master,     \* the Version of the file at origin/master (the baseline)
    returned,   \* what check_versions returned: <<"None">> or <<"Version", v>>
    cmd,        \* the --new-version argument the subprocess was started with
    exitcode,   \* how the bump2version subprocess ended
    result,     \* what _process returned
    vpc,        \* position of the version hook
    actual,     \* the actual configuration fragment given to the comparator
    expected,   \* the expected configuration fragment
    report,     \* how check_value_or_values ended: returned or raised ValueError
    warnings,   \* the bag of logger.warning calls it made
    frozen,     \* <<freeze(actual), freeze(expected)>>
    refrozen,   \* <<freeze(freeze(actual)), freeze(freeze(expected))>>
    cpc,        \* position of the settings check
    receiver,   \* the Version a bump method is called on
    method,     \* the bump method called last
    bumped,     \* the Version that call returned
    currentText,\* findall(pattern, text) on the local file: the versions matched
    masterText, \* findall(pattern, text) on the file at origin/master
    cache,      \* the cache file of (repo, commit): absent, or its text
    runs,       \* one record for each _process run, oldest first
    baseline,   \* findall(pattern, text) on the file at origin/master
    entry,      \* the cache file shared by the processes: absent, or its text
    ppc,        \* position of each process inside _get_master_version
    parsed,     \* the local variable version of each process
    seen,       \* the text each process got from fh.read() on the cache file
    got,        \* what _get_master_version returned or raised in each process
    hook,       \* which main is running
    filenames,  \* args.filenames, each as what its check does when it is executed
    position,   \* index of the filename the loop of main takes next
    executed,   \* indices of the filenames whose check has been executed
    status,     \* "running", the value main returned, or "raised"
    local,      \* the local settings file: absent, or its text
    remote,     \* the text of the remote copy
    syncs,      \* one record for each synchronisation call, oldest first
    files,      \* how many filenames main of do_python was given
    log,        \* one record for each process_file call, oldest first
    listed,     \* whether .pre-commit-config.yaml lists the flake8 repository
    dependencies,\* additional_dependencies of the first flake8 hook
    dotflake8,  \* the local file .flake8: absent, or its text
    remoteFlake8,\* the text behind remote_url
    verdict     \* what Flake8Checker().check() returned or raised

versionVars == <<file, current, master, returned, cmd, exitcode, result, vpc>>

settingsVars == <<actual, expected, report, warnings, frozen, refrozen, cpc>>

bumpVars == <<receiver, method, bumped>>

hookVars == <<currentText, masterText, cache, runs>>

raceVars == <<baseline, entry, ppc, parsed, seen, got>>

mainVars == <<hook, filenames, position, executed, status>>

syncVars == <<local, remote, syncs>>

toolsVars == <<files, log>>

flakeVars == <<listed, dependencies, dotflake8, remoteFlake8, verdict>>

vars == <<versionVars, settingsVars, bumpVars, hookVars, raceVars, mainVars, syncVars, toolsVars, flakeVars>>

\* what an operation on one group of variables leaves alone
exceptVersion == <<settingsVars, bumpVars, hookVars, raceVars, mainVars, syncVars, toolsVars, flakeVars>>

exceptSettings == <<versionVars, bumpVars, hookVars, raceVars, mainVars, syncVars, toolsVars, flakeVars>>

exceptBump == <<versionVars, settingsVars, hookVars, raceVars, mainVars, syncVars, toolsVars, flakeVars>>

exceptHook == <<versionVars, settingsVars, bumpVars, raceVars, mainVars, syncVars, toolsVars, flakeVars>>

exceptRace == <<versionVars, settingsVars, bumpVars, hookVars, mainVars, syncVars, toolsVars, flakeVars>>

exceptMain == <<versionVars, settingsVars, bumpVars, hookVars, raceVars, syncVars, toolsVars, flakeVars>>

exceptSync == <<versionVars, settingsVars, bumpVars, hookVars, raceVars, mainVars, toolsVars, flakeVars>>

exceptTools == <<versionVars, settingsVars, bumpVars, hookVars, raceVars, mainVars, syncVars, flakeVars>>

exceptFlake == <<versionVars, settingsVars, bumpVars, hookVars, raceVars, mainVars, syncVars, toolsVars>>

(***************************************************************************)
(* Bounds                                                                  *)
(***************************************************************************)
MaxComponent == 2

MaxLen == 2

\* ---------------------------------------------------------------------------
\* class Version (run_bump2version.py)
\* ---------------------------------------------------------------------------
Version(major, minor, patch) == [major |-> major, minor |-> minor, patch |-> patch]

bump_major(self) == Version(self.major + 1, 0, 0)

bump_minor_KeepPatch(self) == Version(self.major, self.minor + 1, self.patch)

bump_minor(self) == Version(self.major, self.minor + 1, 0)

bump_patch(self) == Version(self.major, self.minor, self.patch + 1)

\* Optional[VersionInfo]
None == <<"None">>

Some(v) == <<"Version", v>>

\* check_versions (common.py), after the two versions have been parsed
check_versions_NoMinor(cur, mas) ==
    LET patched == bump_patch(mas)
    IN  IF cur \in {bump_major(mas), patched}
        THEN None
        ELSE Some(patched)

check_versions_PatchOfCurrent(cur, mas) ==
    LET patched == bump_patch(mas)
    IN  IF cur \in {bump_major(mas), bump_minor(mas), patched}
        THEN None
        ELSE Some(bump_patch(cur))

check_versions(cur, mas) ==
    LET patched == bump_patch(mas)
    IN  IF cur \in {bump_major(mas), bump_minor(mas), patched}
        THEN None
        ELSE Some(patched)

\* the outcomes of check_call(cmd): exit status 0, CalledProcessError with
\* return code 1 or another code, FileNotFoundError
ExitCodes == {"0", "1", "2", "FileNotFoundError"}

NoCmd == <<"None">>

BaselineVersions ==
    {Version(a, b, c) : a \in 0..MaxComponent, b \in 0..MaxComponent, c \in 0..MaxComponent}

CurrentVersions ==
    {Version(a, b, c) : a \in 0..(MaxComponent + 1), b \in 0..(MaxComponent + 1),
                        c \in 0..(MaxComponent + 1)}

VersionInit ==
    /\ file \in CurrentVersions
    /\ current = <<"unset">>
    /\ master \in BaselineVersions
    /\ returned = <<"unset">>
    /\ cmd = NoCmd
    /\ exitcode = "unset"
    /\ result = "unset"
    /\ vpc = "start"

\* _process (run_bump2version/__init__.py): the version is accepted.
\* The older _process of run_bump2version.py makes the same test inline.
ProcessAccepted ==
    /\ vpc = "start"
    /\ current' = file
    /\ returned' = check_versions(current', master)
    /\ returned' = None
    /\ result' = TRUE
    /\ vpc' = "done"
    /\ UNCHANGED <<file, master, cmd, exitcode, exceptVersion>>

\* _process: a bump is required and bump2version is run with the target.
\* bump2version --new-version=<target> that exits with status 0 has written
\* the target to the file; _trim_trailing_whitespaces then strips blanks and
\* leaves the version alone. Every other outcome leaves the file as it was.
ProcessBump ==
    /\ vpc = "start"
    /\ current' = file
    /\ returned' = check_versions(current', master)
    /\ returned' # None
    /\ cmd' = returned'[2]
    /\ \E code \in ExitCodes :
          /\ exitcode' = code
          /\ IF code = "0"
             THEN /\ file' = cmd'
                  /\ result' = TRUE
             ELSE /\ file' = file
                  /\ result' = FALSE
    /\ vpc' = "done"
    /\ UNCHANGED <<master, exceptVersion>>

\* ---------------------------------------------------------------------------
\* Values: Scalar | Sequence<Value> | Mapping<String, Value> (check_settings.py)
\* ---------------------------------------------------------------------------
\* a str, number, bool or None
Scalar(v) == <<"scalar", v>>

\* a list: its elements in order
List(elems) == <<"list", elems>>

\* a dict: its (key, value) items in insertion order, the keys distinct
Dict(items) == <<"dict", items>>

\* frozenset(...): a set of hashable values
frozenset(elems) == <<"frozenset", elems>>

frozendict_AsItems(items) == <<"frozenset", {<<"list", <<it[1], it[2]>>>> : it \in items}>>

\* frozendict(...): a set of (key, value) items, one per key
frozendict(items) == <<"frozendict", items>>

\* isinstance(x, Mapping)
isMapping(x) == x[1] \in {"dict", "frozendict"}

\* is_iterable: isinstance(x, Iterable) and not isinstance(x, str)
is_iterable(x) == x[1] \in {"list", "dict", "frozenset", "frozendict"}

Range(s) == {s[i] : i \in DOMAIN s}

\* x.items() of a Mapping, as a set
Items(x) == IF x[1] = "dict" THEN Range(x[2]) ELSE x[2]

\* the keys of a Mapping, as a set
Keys(x) == {it[1] : it \in Items(x)}

\* x[key] of a Mapping that has the key
Get(x, key) == (CHOOSE it \in Items(x) : it[1] = key)[2]

\* what iterating x yields, as a set: the keys of a Mapping, the elements of
\* a list or a frozenset
Members(x) == IF isMapping(x) THEN Keys(x)
              ELSE IF x[1] = "list" THEN Range(x[2])
              ELSE x[2]

\* what iterating a list or a dict yields, in order
Iterate(x) == IF x[1] = "dict" THEN [i \in DOMAIN x[2] |-> x[2][i][1]] ELSE x[2]

freeze_Shallow(x) ==
    IF isMapping(x)
    THEN frozendict(Items(x))
    ELSE IF is_iterable(x)
    THEN frozenset(Members(x))
    ELSE x

RECURSIVE freeze_KeepOrder(_)
freeze_KeepOrder(x) ==
    IF isMapping(x)
    THEN frozendict({<<it[1], freeze_KeepOrder(it[2])>> : it \in Items(x)})
    ELSE IF x[1] = "list"
    THEN <<"list", [i \in DOMAIN x[2] |-> freeze_KeepOrder(x[2][i])]>>
    ELSE x

RECURSIVE freeze(_)
freeze(x) ==
    IF isMapping(x)
    THEN frozendict({<<it[1], freeze(it[2])>> : it \in Items(x)})
    ELSE IF is_iterable(x)
    THEN frozenset({freeze(e) : e \in Members(x)})
    ELSE x

\* ---------------------------------------------------------------------------
\* check_value_or_values (check_settings.py)
\* ---------------------------------------------------------------------------
\* the function returned without raising
Ok == <<"ok">>

\* ValueError(f"Missing key: {key}")
MissingKey(key) == <<"MissingKey", key>>

\* ValueError(f"Missing value: {exp_val}")
MissingValue(value) == <<"MissingValue", value>>

\* ValueError(f"Differing values found: {actual} != {expected}")
ValueMismatch(act, exp) == <<"ValueMismatch", act, exp>>

\* an outcome of the function: how it ended and the warnings it logged
Outcome(rep, warns) == [report |-> rep, warnings |-> warns]

both_iterable_SameShape(act, exp) ==
    is_iterable(act) /\ is_iterable(exp) /\ (isMapping(act) <=> isMapping(exp))

\* is_iterable(actual) and is_iterable(expected)
both_iterable(act, exp) == is_iterable(act) /\ is_iterable(exp)

differing_ScalarsOnly(act, exp) ==
    act[1] = "scalar" /\ exp[1] = "scalar" /\ act # exp

\* actual != expected
differing(act, exp) == act # exp

not_in_frozen_Unfrozen(exp_val, act) == exp_val \notin Members(act)

\* freeze(exp_val) not in freeze(actual)
not_in_frozen(exp_val, act) == freeze(exp_val) \notin Members(freeze(act))

extra_warnings_Reversed(desc, act, exp) ==
    SetToBag({<<desc, extra>> : extra \in Members(freeze(exp)) \ Members(freeze(act))})

\* for extra in set(freeze(actual)) - set(freeze(expected)): logger.warning(...)
extra_warnings(desc, act, exp) ==
    SetToBag({<<desc, extra>> : extra \in Members(freeze(act)) \ Members(freeze(exp))})

sequence_loop_FirstOnly(act, exp_vals, i) ==
    IF i > Len(exp_vals) \/ ~not_in_frozen(exp_vals[i], act)
    THEN Outcome(Ok, EmptyBag)
    ELSE Outcome(MissingValue(exp_vals[i]), EmptyBag)

\* for exp_val in expected: ... raise ValueError(f"Missing value: {exp_val}")
sequence_loop_LastOnly(act, exp_vals, i) ==
    IF Len(exp_vals) = 0
    THEN Outcome(Ok, EmptyBag)
    ELSE IF not_in_frozen(exp_vals[Len(exp_vals)], act)
    THEN Outcome(MissingValue(exp_vals[Len(exp_vals)]), EmptyBag)
    ELSE Outcome(Ok, EmptyBag)

RECURSIVE sequence_loop(_, _, _)
sequence_loop(act, exp_vals, i) ==
    IF i > Len(exp_vals)
    THEN Outcome(Ok, EmptyBag)
    ELSE IF not_in_frozen(exp_vals[i], act)
    THEN Outcome(MissingValue(exp_vals[i]), EmptyBag)
    ELSE sequence_loop(act, exp_vals, i + 1)

RECURSIVE check_value_or_values(_, _), mapping_loop(_, _, _),
          mapping_loop_KeysFirst(_, _, _)
mapping_loop_KeysFirst(act, exp_items, i) ==
    LET absent == {j \in DOMAIN exp_items : exp_items[j][1] \notin Keys(act)}
    IN  IF i > Len(exp_items)
        THEN Outcome(Ok, EmptyBag)
        ELSE IF absent # {}
        THEN Outcome(MissingKey(exp_items[CHOOSE j \in absent : \A k \in absent : j <= k][1]),
                     EmptyBag)
        ELSE LET inner == check_value_or_values(Get(act, exp_items[i][1]), exp_items[i][2])
                 rest == mapping_loop_KeysFirst(act, exp_items, i + 1)
             IN  IF inner.report # Ok
                 THEN inner
                 ELSE Outcome(rest.report, inner.warnings (+) rest.warnings)

\* for key, exp_val in expected.items(): try: check_value_or_values(...)
\* except KeyError: raise ValueError(f"Missing key: {key}")
mapping_loop(act, exp_items, i) ==
    IF i > Len(exp_items)
    THEN Outcome(Ok, EmptyBag)
    ELSE LET key == exp_items[i][1]
             exp_val == exp_items[i][2]
         IN  IF key \notin Keys(act)
             THEN Outcome(MissingKey(key), EmptyBag)
             ELSE LET inner == check_value_or_values(Get(act, key), exp_val)
                      rest == mapping_loop(act, exp_items, i + 1)
                  IN  IF inner.report # Ok
                      THEN inner
                      ELSE Outcome(rest.report, inner.warnings (+) rest.warnings)

check_value_or_values(act, exp) ==
    IF both_iterable(act, exp)
    THEN LET both == isMapping(act) /\ isMapping(exp)
             loop == IF both
                     THEN mapping_loop(act, exp[2], 1)
                     ELSE sequence_loop(act, Iterate(exp), 1)
             desc == IF both THEN "key" ELSE "value"
         IN  IF loop.report # Ok
             THEN loop
             ELSE Outcome(Ok, loop.warnings (+) extra_warnings(desc, act, exp))
    ELSE IF differing(act, exp)
    THEN Outcome(ValueMismatch(act, exp), EmptyBag)
    ELSE Outcome(Ok, EmptyBag)

\* ---------------------------------------------------------------------------
\* The configuration fragments the checks are run on
\* ---------------------------------------------------------------------------
\* two strings, enough for equal and for differing scalars
Scalars == {Scalar("a"), Scalar("b")}

\* the strings used as keys of mappings: scalars, so that a list can hold them
KeyScalars == Scalars

ListsOver(S, n) == {List(s) : s \in UNION {[1..k -> S] : k \in 0..n}}

DictsOver(S, n) ==
    {Dict(s) : s \in {t \in UNION {[1..k -> KeyScalars \X S] : k \in 0..n} :
                         \A i, j \in DOMAIN t : t[i][1] = t[j][1] => i = j}}

\* collections of scalars
FlatValues == Scalars \cup ListsOver(Scalars, MaxLen) \cup DictsOver(Scalars, MaxLen)

\* a collection with at most one element that is itself a collection
OneNested(x) ==
    Cardinality({i \in DOMAIN x[2] :
        is_iterable(IF x[1] = "dict" THEN x[2][i][2] ELSE x[2][i])}) <= 1

Values ==
    Scalars \cup {x \in ListsOver(FlatValues, MaxLen) \cup DictsOver(FlatValues, MaxLen) :
                     OneNested(x)}

\* Idle values: what a group of variables holds in a specification that
\* exercises another group.
VersionIdle ==
    /\ file = Version(0, 0, 0)
    /\ current = <<"unset">>
    /\ master = Version(0, 0, 0)
    /\ returned = <<"unset">>
    /\ cmd = NoCmd
    /\ exitcode = "unset"
    /\ result = "unset"
    /\ vpc = "idle"

SettingsIdle ==
    /\ actual = Scalar("a")
    /\ expected = Scalar("a")
    /\ report = <<"unset">>
    /\ warnings = EmptyBag
    /\ frozen = <<>>
    /\ refrozen = <<>>
    /\ cpc = "idle"

BumpIdle ==
    /\ receiver = Version(0, 0, 0)
    /\ method = "none"
    /\ bumped = <<"unset">>

HookIdle ==
    /\ currentText = <<>>
    /\ masterText = <<>>
    /\ cache = <<"absent">>
    /\ runs = <<>>

RaceIdle ==
    /\ baseline = <<>>
    /\ entry = <<"absent">>
    /\ ppc = <<>>
    /\ parsed = <<>>
    /\ seen = <<>>
    /\ got = <<>>

MainIdle ==
    /\ hook = "none"
    /\ filenames = <<>>
    /\ position = 1
    /\ executed = {}
    /\ status = "idle"

SyncIdle ==
    /\ local = <<"absent">>
    /\ remote = ""
    /\ syncs = <<>>

ToolsIdle ==
    /\ files = 0
    /\ log = <<>>

FlakeIdle ==
    /\ listed = FALSE
    /\ dependencies = <<>>
    /\ dotflake8 = <<"absent">>
    /\ remoteFlake8 = ""
    /\ verdict = <<"idle">>

\* The groups a specification leaves idle.
IdleButVersion ==
    /\ SettingsIdle
    /\ BumpIdle
    /\ HookIdle
    /\ RaceIdle
    /\ MainIdle
    /\ SyncIdle
    /\ ToolsIdle
    /\ FlakeIdle

IdleButSettings ==
    /\ VersionIdle
    /\ BumpIdle
    /\ HookIdle
    /\ RaceIdle
    /\ MainIdle
    /\ SyncIdle
    /\ ToolsIdle
    /\ FlakeIdle

IdleButBump ==
    /\ VersionIdle
    /\ SettingsIdle
    /\ HookIdle
    /\ RaceIdle
    /\ MainIdle
    /\ SyncIdle
    /\ ToolsIdle
    /\ FlakeIdle

IdleButHook ==
    /\ VersionIdle
    /\ SettingsIdle
    /\ BumpIdle
    /\ RaceIdle
    /\ MainIdle
    /\ SyncIdle
    /\ ToolsIdle
    /\ FlakeIdle

IdleButRace ==
    /\ VersionIdle
    /\ SettingsIdle
    /\ BumpIdle
    /\ HookIdle
    /\ MainIdle
    /\ SyncIdle
    /\ ToolsIdle
    /\ FlakeIdle

IdleButMain ==
    /\ VersionIdle
    /\ SettingsIdle
    /\ BumpIdle
    /\ HookIdle
    /\ RaceIdle
    /\ SyncIdle
    /\ ToolsIdle
    /\ FlakeIdle

IdleButSync ==
    /\ VersionIdle
    /\ SettingsIdle
    /\ BumpIdle
    /\ HookIdle
    /\ RaceIdle
    /\ MainIdle
    /\ ToolsIdle
    /\ FlakeIdle

IdleButTools ==
    /\ VersionIdle
    /\ SettingsIdle
    /\ BumpIdle
    /\ HookIdle
    /\ RaceIdle
    /\ MainIdle
    /\ SyncIdle
    /\ FlakeIdle

IdleButFlake ==
    /\ VersionIdle
    /\ SettingsIdle
    /\ BumpIdle
    /\ HookIdle
    /\ RaceIdle
    /\ MainIdle
    /\ SyncIdle
    /\ ToolsIdle
\* End of the idle values.

SettingsInit ==
    /\ actual \in Values
    /\ expected \in Values
    /\ report = <<"unset">>
    /\ warnings = EmptyBag
    /\ frozen = <<>>
    /\ refrozen = <<>>
    /\ cpc = "start"

\* one call check_value_or_values(actual, expected)
CheckValueOrValues ==
    /\ cpc = "start"
    /\ LET out == check_value_or_values(actual, expected)
       IN  /\ report' = out.report
           /\ warnings' = out.warnings
    /\ cpc' = "done"
    /\ UNCHANGED <<actual, expected, frozen, refrozen, exceptSettings>>

\* freeze(actual), freeze(expected), and freeze of each result
Freeze ==
    /\ cpc = "start"
    /\ frozen' = <<freeze(actual), freeze(expected)>>
    /\ refrozen' = <<freeze(frozen'[1]), freeze(frozen'[2])>>
    /\ cpc' = "frozen"
    /\ UNCHANGED <<actual, expected, report, warnings, exceptSettings>>

VersionNext == ProcessAccepted \/ ProcessBump

VersionStart == VersionInit /\ IdleButVersion

VersionSpec == VersionStart /\ [][VersionNext]_vars

MatchNext == CheckValueOrValues

MatchStart == SettingsInit /\ IdleButSettings

MatchSpec == MatchStart /\ [][MatchNext]_vars

FreezeNext == Freeze

FreezeStart == SettingsInit /\ IdleButSettings

FreezeSpec == FreezeStart /\ [][FreezeNext]_vars

\* ---------------------------------------------------------------------------
\* Properties of the version gate
\* ---------------------------------------------------------------------------
\* the three versions the gate accepts, written out component by component
IsBumpOf(cur, mas) ==
    \/ cur.major = mas.major + 1 /\ cur.minor = 0 /\ cur.patch = 0
    \/ cur.major = mas.major /\ cur.minor = mas.minor + 1 /\ cur.patch = 0
    \/ cur.major = mas.major /\ cur.minor = mas.minor /\ cur.patch = mas.patch + 1

PatchOf(mas) == [major |-> mas.major, minor |-> mas.minor, patch |-> mas.patch + 1]

\* C1: the gate accepts (check_versions returns None, _process starts no
\* bump and returns True) if and only if current is the major, minor or patch
\* bump of the baseline; in every other case it requires a bump whose target
\* is the patch bump of the baseline, whatever current is.
C1_VersionGate ==
    vpc = "done" =>
        /\ (returned = None) <=> IsBumpOf(current, master)
        /\ returned = None => cmd = NoCmd /\ result = TRUE
        /\ returned # None => returned = Some(PatchOf(master)) /\ cmd = PatchOf(master)

\* a version far ahead of every accepted bump is rejected, with the patch
\* bump of the baseline as target
C1_Witness ==
    /\ vpc = "done"
    /\ current.major > master.major + 1
    /\ returned = Some(PatchOf(master))

\* ---------------------------------------------------------------------------
\* Properties of check_value_or_values
\* ---------------------------------------------------------------------------
isScalar(x) == x[1] = "scalar"

isList(x) == x[1] = "list"

isDict(x) == x[1] = "dict"

Elems(x) == Range(x[2])

Min(S) == CHOOSE n \in S : \A m \in S : n <= m

\* one of the two is a mapping and the other a sequence
Mixed(act, exp) == (isDict(act) /\ isList(exp)) \/ (isList(act) /\ isDict(exp))

\* u and v are the same value up to the order and the repetition of the
\* elements of sequences and the insertion order of mappings
RECURSIVE Equivalent(_, _)
Equivalent(u, v) ==
    IF isDict(u) /\ isDict(v)
    THEN /\ Keys(u) = Keys(v)
         /\ \A k \in Keys(u) : Equivalent(Get(u, k), Get(v, k))
    ELSE IF isList(u) /\ isList(v)
    THEN /\ \A a \in Elems(u) : \E b \in Elems(v) : Equivalent(a, b)
         /\ \A b \in Elems(v) : \E a \in Elems(u) : Equivalent(a, b)
    ELSE isScalar(u) /\ isScalar(v) /\ u[2] = v[2]

\* every key/value of exp is present in act, whatever else act holds at any
\* depth
RECURSIVE PresentIn(_, _)
PresentIn(act, exp) ==
    IF isDict(act) /\ isDict(exp)
    THEN \A k \in Keys(exp) : k \in Keys(act) /\ PresentIn(Get(act, k), Get(exp, k))
    ELSE IF isList(act) /\ isList(exp)
    THEN \A e \in Elems(exp) : \E a \in Elems(act) : PresentIn(a, e)
    ELSE isScalar(act) /\ isScalar(exp) /\ act[2] = exp[2]

\* as PresentIn, but an element of an expected sequence must occur in the
\* actual sequence as a whole
RECURSIVE PresentWhole(_, _)
PresentWhole(act, exp) ==
    IF isDict(act) /\ isDict(exp)
    THEN \A k \in Keys(exp) : k \in Keys(act) /\ PresentWhole(Get(act, k), Get(exp, k))
    ELSE IF isList(act) /\ isList(exp)
    THEN \A e \in Elems(exp) : \E a \in Elems(act) : Equivalent(a, e)
    ELSE isScalar(act) /\ isScalar(exp) /\ act[2] = exp[2]

\* C2 as stated: the match succeeds whenever every key/value of expected is
\* present in actual, whatever extra content actual has at any nesting depth,
\* extra keys inside a mapping that is an element of a sequence included.
C2_SubsetAnyDepth ==
    cpc = "done" /\ PresentIn(actual, expected) => report = Ok

\* C2 amended: the match succeeds whenever every key/value of expected is
\* present in actual, whatever extra keys the mappings of actual and extra
\* elements the sequences of actual have, provided every element of an
\* expected sequence occurs in the actual sequence as a whole (equal up to
\* order and repetition); an expected element that occurs only with extra
\* content inside it makes the match fail with MissingValue.
C2_SubsetWholeElements ==
    cpc = "done" =>
        /\ PresentWhole(actual, expected) => report = Ok
        /\ /\ isList(actual) /\ isList(expected)
           /\ \E e \in Elems(expected) : \A a \in Elems(actual) : ~Equivalent(a, e)
           => report[1] = "MissingValue"

\* a successful match where actual has an extra key, and an extra element in
\* a nested sequence
C2_Witness ==
    /\ cpc = "done" /\ report = Ok
    /\ isDict(actual) /\ isDict(expected)
    /\ Keys(actual) # Keys(expected)
    /\ \E k \in Keys(expected) :
          /\ isList(Get(expected, k)) /\ isList(Get(actual, k))
          /\ Elems(Get(expected, k)) # {}
          /\ Elems(Get(actual, k)) # Elems(Get(expected, k))

\* the outcome of the recursive match on the i-th item of expected
ItemReport(act, exp, i) ==
    check_value_or_values(Get(act, exp[2][i][1]), exp[2][i][2]).report

\* C3 as stated: between two mappings the match fails with MissingKey(key)
\* if some key of expected is absent from actual; otherwise it fails exactly
\* when the recursive match of some expected key fails, with that failure.
C3_MissingKeyWhenAbsent ==
    cpc = "done" /\ isDict(actual) /\ isDict(expected) =>
        LET absent == Keys(expected) \ Keys(actual)
            failures == {ItemReport(actual, expected, i) : i \in DOMAIN expected[2]} \ {Ok}
        IN  IF absent # {}
            THEN report[1] = "MissingKey" /\ report[2] \in absent
            ELSE /\ report # Ok <=> failures # {}
                 /\ report # Ok => report \in failures

\* C3 amended: between two mappings the expected keys are visited in their
\* order and the match fails at the first one that is absent from actual,
\* with MissingKey(key), or whose recursive match fails, with that failure
\* unchanged; it succeeds exactly when there is no such key. A key that is
\* absent is reported only if no earlier key fails its recursive match.
C3_FirstFailureInKeyOrder ==
    cpc = "done" /\ isDict(actual) /\ isDict(expected) =>
        LET items == expected[2]
            bad == {i \in DOMAIN items :
                      \/ items[i][1] \notin Keys(actual)
                      \/ ItemReport(actual, expected, i) # Ok}
        IN  IF bad = {}
            THEN report = Ok
            ELSE LET i == Min(bad)
                 IN  IF items[i][1] \notin Keys(actual)
                     THEN report = MissingKey(items[i][1])
                     ELSE report = ItemReport(actual, expected, i)

\* the second expected key is absent, and the failure reported is that of
\* the recursive match of the first
C3_Witness ==
    /\ cpc = "done" /\ isDict(actual) /\ isDict(expected)
    /\ Len(expected[2]) = 2
    /\ expected[2][2][1] \notin Keys(actual)
    /\ expected[2][1][1] \in Keys(actual)
    /\ report[1] \in {"ValueMismatch", "MissingValue"}

\* the elements of expected whose frozen form is not in freeze(actual)
MissingFrom(act, exp) ==
    {e \in Elems(exp) : \A a \in Elems(act) : freeze(a) # freeze(e)}

\* one sequence for every set of elements: the elements of x, each once, in
\* an order that depends on the set alone
Canonical(x) ==
    List(CHOOSE s \in [1..Cardinality(Elems(x)) -> Elems(x)] : Range(s) = Elems(x))

\* C4: between two sequences the match fails, with MissingValue(e), if and
\* only if some element e of expected has freeze(e) not in freeze(actual);
\* the order of actual and the number of times an element occurs in either
\* sequence do not matter: the outcome is that of the sequences with the
\* same elements, each once, in a fixed order.
C4_MissingValueIffNotMember ==
    cpc = "done" /\ isList(actual) /\ isList(expected) =>
        /\ MissingFrom(actual, expected) = {} => report = Ok
        /\ MissingFrom(actual, expected) # {} =>
              report[1] = "MissingValue" /\ report[2] \in MissingFrom(actual, expected)
        /\ check_value_or_values(Canonical(actual), expected).report = report
        /\ (check_value_or_values(actual, Canonical(expected)).report = Ok) <=> (report = Ok)

\* two sequences that share an element, one of them with a nested
\* collection, and a failure naming an element that is missing
C4_Witness ==
    /\ cpc = "done" /\ isList(actual) /\ isList(expected)
    /\ report[1] = "MissingValue"
    /\ Elems(expected) \cap Elems(actual) # {}
    /\ \E e \in Elems(actual) : is_iterable(e)

\* C5 as stated: a mapping matched against a sequence, or a sequence against
\* a mapping, always fails, by falling through to scalar equality.
C5_MixedShapesFail ==
    cpc = "done" /\ Mixed(actual, expected) => report # Ok

\* what a membership test finds in x: the keys of a mapping, the frozen
\* elements of a sequence
Offered(x) == IF isDict(x) THEN Keys(x) ELSE {freeze(e) : e \in Elems(x)}

\* C5 amended: a mapping matched against a sequence, or a sequence against a
\* mapping, does not fall through to scalar equality: the keys stand for the
\* mapping, and the match succeeds if and only if every element of expected
\* (every key, when expected is the mapping) is a key of the actual mapping,
\* or the frozen form of an element of the actual sequence; otherwise it
\* fails with MissingValue of such an element.
C5_MixedShapesUseKeys ==
    cpc = "done" /\ Mixed(actual, expected) =>
        /\ report = Ok <=> Offered(expected) \subseteq Offered(actual)
        /\ report # Ok =>
              /\ report[1] = "MissingValue"
              /\ freeze(report[2]) \in Offered(expected) \ Offered(actual)

\* the hooks of a repository, a mapping, matched with success against the
\* list of the hooks that must be enabled
C5_Witness ==
    /\ cpc = "done" /\ isDict(actual) /\ isList(expected)
    /\ Elems(expected) # {}
    /\ report = Ok

\* C6: when at least one of actual and expected is a scalar, the match
\* succeeds if and only if the two are equal, and fails with
\* ValueMismatch(actual, expected) otherwise; a scalar never matches a
\* collection.
C6_ScalarEquality ==
    cpc = "done" /\ (isScalar(actual) \/ isScalar(expected)) =>
        /\ report = Ok <=> (isScalar(actual) /\ isScalar(expected) /\ actual[2] = expected[2])
        /\ report # Ok => report = <<"ValueMismatch", actual, expected>>
        /\ warnings = EmptyBag

\* a scalar matched against a collection that holds it
C6_Witness ==
    /\ cpc = "done" /\ isScalar(actual) /\ isList(expected)
    /\ actual \in Elems(expected)
    /\ report = <<"ValueMismatch", actual, expected>>

\* the sum of the bags f[x], x in S
RECURSIVE SumBags(_, _)
SumBags(f, S) ==
    IF S = {}
    THEN EmptyBag
    ELSE LET x == CHOOSE y \in S : TRUE
         IN  f[x] (+) SumBags(f, S \ {x})

\* the surplus of act over exp at every level visited: the keys of act that
\* exp does not have and the surplus under every key of exp, between two
\* mappings; the frozen elements of act that exp does not have, between two
\* sequences. Between a mapping and a sequence the surplus carries the
\* label of the shape of act when byShape, and the label "value" otherwise.
RECURSIVE Surplus(_, _, _)
Surplus(act, exp, byShape) ==
    IF isDict(act) /\ isDict(exp)
    THEN SetToBag({<<"key", k>> : k \in Keys(act) \ Keys(exp)})
         (+) SumBags([k \in Keys(exp) |-> Surplus(Get(act, k), Get(exp, k), byShape)],
                     Keys(exp))
    ELSE IF isScalar(act) \/ isScalar(exp)
    THEN EmptyBag
    ELSE LET label == IF byShape /\ isDict(act) THEN "key" ELSE "value"
         IN  SetToBag({<<label, x>> : x \in Offered(act) \ Offered(exp)})

\* exp is satisfied by act: what it requires is there, whatever the surplus
RECURSIVE Satisfied(_, _)
Satisfied(act, exp) ==
    IF isDict(act) /\ isDict(exp)
    THEN \A k \in Keys(exp) : k \in Keys(act) /\ Satisfied(Get(act, k), Get(exp, k))
    ELSE IF isScalar(act) \/ isScalar(exp)
    THEN isScalar(act) /\ isScalar(exp) /\ act[2] = exp[2]
    ELSE Offered(exp) \subseteq Offered(act)

\* C7 as stated: in a successful match the warnings are exactly the surplus
\* of actual over expected at every level visited, one ExtraKey per key of
\* an actual mapping that expected does not require and one ExtraValue per
\* element of freeze(actual) - freeze(expected) of an actual sequence; the
\* surplus never makes the match fail.
C7_WarningsAreSurplus ==
    cpc = "done" =>
        /\ report = Ok => warnings = Surplus(actual, expected, TRUE)
        /\ Satisfied(actual, expected) => report = Ok

\* C7 amended: in a successful match the warnings are exactly the surplus of
\* actual over expected at every level visited: one ExtraKey per key of an
\* actual mapping that the expected mapping does not have, and one
\* ExtraValue per element of freeze(actual) - freeze(expected) otherwise;
\* the surplus keys of an actual mapping matched against an expected
\* sequence are reported as ExtraValue, not ExtraKey. The surplus never
\* makes the match fail.
C7_WarningsAreSurplusByBranch ==
    cpc = "done" =>
        /\ report = Ok => warnings = Surplus(actual, expected, FALSE)
        /\ Satisfied(actual, expected) => report = Ok

\* a successful match with an extra key at the top and an extra value in a
\* sequence below it
C7_Witness ==
    /\ cpc = "done" /\ report = Ok
    /\ isDict(actual) /\ isDict(expected)
    /\ \E k \in KeyScalars, v \in Scalars :
          /\ BagIn(<<"key", k>>, warnings)
          /\ BagIn(<<"value", v>>, warnings)

\* ---------------------------------------------------------------------------
\* Properties of freeze
\* ---------------------------------------------------------------------------
\* how many elements of the sequence x are the value e
Count(x, e) == Cardinality({i \in DOMAIN x[2] : Equivalent(x[2][i], e)})

\* the sequence t is the sequence s in another order
IsPermutation(s, t) ==
    /\ Len(s) = Len(t)
    /\ \E p \in Permutations(DOMAIN s) : \A i \in DOMAIN s : t[i] = s[p[i]]

\* C8 as stated: two sequences freeze to equal values if and only if they
\* hold the same elements with the same multiplicities.
C8_FreezeIsMultiset ==
    cpc = "frozen" /\ isList(actual) /\ isList(expected) =>
        (frozen[1] = frozen[2] <=>
            \A e \in Elems(actual) \cup Elems(expected) :
                Count(actual, e) = Count(expected, e))

\* C8 amended: two sequences freeze to equal values if and only if they
\* hold the same elements, however often each is repeated: a frozen
\* sequence is a set, and two sequences that differ only in how often an
\* element is repeated freeze to equal values.
C8_FreezeIsSet ==
    cpc = "frozen" /\ isList(actual) /\ isList(expected) =>
        (frozen[1] = frozen[2] <=>
            \A e \in Elems(actual) \cup Elems(expected) :
                (Count(actual, e) > 0) <=> (Count(expected, e) > 0))

\* a sequence with a repeated element and the sequence without the
\* repetition freeze to the same value
C8_Witness ==
    /\ cpc = "frozen" /\ isList(actual) /\ isList(expected)
    /\ Len(actual[2]) = 2 /\ Len(expected[2]) = 1
    /\ actual[2][1] = actual[2][2]
    /\ frozen[1] = frozen[2]

\* C9: freeze does not depend on the order of a sequence, whose elements may
\* be collections themselves, nor on the insertion order of a mapping.
C9_FreezeOrderIndependent ==
    /\ cpc = "frozen" /\ actual[1] = expected[1] /\ is_iterable(actual) =>
          (IsPermutation(actual[2], expected[2]) => frozen[1] = frozen[2])

\* two different orders of a sequence with a nested collection
C9_Witness ==
    /\ cpc = "frozen" /\ isList(actual) /\ isList(expected)
    /\ actual # expected
    /\ IsPermutation(actual[2], expected[2])
    /\ \E e \in Elems(actual) : is_iterable(e) /\ e[2] # <<>>
    /\ frozen[1] = frozen[2]

\* C10: freeze is idempotent: freezing a frozen value gives the same value.
C10_FreezeIdempotent ==
    cpc = "frozen" => refrozen = frozen

\* a mapping with a sequence in it, frozen and frozen again
C10_Witness ==
    /\ cpc = "frozen" /\ isDict(actual)
    /\ \E k \in Keys(actual) : isList(Get(actual, k)) /\ Elems(Get(actual, k)) # {}
    /\ frozen[1][1] = "frozendict"
    /\ refrozen[1] = frozen[1]

\* one arrangement for all the orders in which the entries of s can come:
\* the distinct entries in an order fixed by their set, each as often as s
\* holds it
RECURSIVE ArrangedFrom(_, _)
ArrangedFrom(S, s) ==
    IF S = {}
    THEN <<>>
    ELSE LET e == CHOOSE x \in S : TRUE
             n == Cardinality({i \in DOMAIN s : s[i] = e})
         IN  [i \in 1..n |-> e] \o ArrangedFrom(S \ {e}, s)

Arranged(s) == ArrangedFrom(Range(s), s)

\* x with the elements of every sequence and the items of every mapping
\* rearranged, at every depth, into an order that depends on the contents
\* only: two values that differ in visiting order only have the same Reordered
RECURSIVE Reordered(_)
Reordered(x) ==
    IF isScalar(x)
    THEN x
    ELSE IF isList(x)
    THEN List(Arranged([i \in DOMAIN x[2] |-> Reordered(x[2][i])]))
    ELSE Dict(Arranged([i \in DOMAIN x[2] |-> <<x[2][i][1], Reordered(x[2][i][2])>>]))

\* C17: whether check_value_or_values(actual, expected) succeeds or fails
\* does not depend on the order in which mapping keys and sequence elements
\* are visited: the same contents in another order give the same
\* success-or-failure outcome.
C17_OutcomeOrderIndependent ==
    cpc = "done" =>
        ((report = Ok) <=>
         (check_value_or_values(Reordered(actual), Reordered(expected)).report = Ok))

\* both orders fail, and they report a different missing key or value first
C17_Witness ==
    /\ cpc = "done"
    /\ report # Ok
    /\ Reordered(expected) # expected
    /\ check_value_or_values(actual, Reordered(expected)).report \notin {Ok, report}

\* ---------------------------------------------------------------------------
\* The bump methods of class Version, called on their own
\* ---------------------------------------------------------------------------
BumpInit ==
    /\ receiver \in BaselineVersions
    /\ method = "none"
    /\ bumped = <<"unset">>

\* self.bump_major(): the dataclass is frozen, the result is a new Version
BumpMajor ==
    /\ method' = "bump_major"
    /\ bumped' = bump_major(receiver)
    /\ UNCHANGED <<receiver, exceptBump>>

\* self.bump_minor()
BumpMinor ==
    /\ method' = "bump_minor"
    /\ bumped' = bump_minor(receiver)
    /\ UNCHANGED <<receiver, exceptBump>>

\* self.bump_patch()
BumpPatch ==
    /\ method' = "bump_patch"
    /\ bumped' = bump_patch(receiver)
    /\ UNCHANGED <<receiver, exceptBump>>

BumpNext == BumpMajor \/ BumpMinor \/ BumpPatch

BumpStart == BumpInit /\ IdleButBump

BumpSpec == BumpStart /\ [][BumpNext]_vars

\* C11: for a Version (major, minor, patch), bump_major gives
\* (major + 1, 0, 0), bump_minor gives (major, minor + 1, 0) and bump_patch
\* gives (major, minor, patch + 1); the three results differ from one another
\* and from the receiver, and a call leaves its receiver as it was.
C11_BumpResult ==
    /\ method = "bump_major" =>
          /\ bumped.major = receiver.major + 1
          /\ bumped.minor = 0
          /\ bumped.patch = 0
    /\ method = "bump_minor" =>
          /\ bumped.major = receiver.major
          /\ bumped.minor = receiver.minor + 1
          /\ bumped.patch = 0
    /\ method = "bump_patch" =>
          /\ bumped.major = receiver.major
          /\ bumped.minor = receiver.minor
          /\ bumped.patch = receiver.patch + 1
    /\ Cardinality({receiver, bump_major(receiver), bump_minor(receiver),
                    bump_patch(receiver)}) = 4

C11_Bumps == [](C11_BumpResult) /\ [][receiver' = receiver]_vars

C11_Witness ==
    /\ method = "bump_minor"
    /\ receiver.minor > 0
    /\ receiver.patch > 0
    /\ bumped = Version(receiver.major, receiver.minor + 1, 0)

\* ---------------------------------------------------------------------------
\* The version hook with its files: parsing, the baseline cache, repeated runs
\* (common.py, run_bump2version/__init__.py; run_bump2version.py is the older
\* copy with the same steps)
\* ---------------------------------------------------------------------------
MaxMatches == 2

MaxRuns == 3

\* raise ValueError
Raise == <<"ValueError">>

\* the versions that occur in the texts
TextVersions ==
    {Version(0, 0, 0), Version(0, 0, 1), Version(0, 1, 0), Version(0, 1, 1),
     Version(1, 0, 0)}

\* a text, as what findall(pattern, text, flags=MULTILINE) returns on it
Texts == UNION {[1..n -> TextVersions] : n \in 0..MaxMatches}

\* (match,) = findall(...); return VersionInfo.parse(match)
_parse_version_First(text) == IF Len(text) >= 1 THEN Some(text[1]) ELSE Raise

_parse_version(text) == IF Len(text) = 1 THEN Some(text[1]) ELSE Raise

\* str(version), the text "major.minor.patch" written to the cache
str(version) == <<version.major, version.minor, version.patch>>

\* VersionInfo.parse(fh.read())
parse(text) == IF Len(text) = 3 THEN Some(Version(text[1], text[2], text[3])) ELSE Raise

NoFile == <<"absent">>

File(text) == <<"file", text>>

_get_master_version_NoWrite(c, mtext) ==
    IF c # NoFile
    THEN [value |-> parse(c[2]), cache |-> c, lookup |-> "hit", wrote |-> FALSE]
    ELSE [value |-> _parse_version(mtext), cache |-> c, lookup |-> "miss", wrote |-> FALSE]

\* _get_master_version: the value returned or raised, the cache afterwards,
\* and whether git show was run and the cache file written.
_get_master_version(c, mtext) ==
    IF c # NoFile
    THEN [value |-> parse(c[2]), cache |-> c, lookup |-> "hit", wrote |-> FALSE]
    ELSE LET version == _parse_version(mtext)
         IN  IF version = Raise
             THEN [value |-> Raise, cache |-> c, lookup |-> "miss", wrote |-> FALSE]
             ELSE [value |-> version, cache |-> File(str(version[2])),
                   lookup |-> "miss", wrote |-> TRUE]

\* check_versions(path, pattern, name=...) on the two texts: current is
\* parsed first, then the baseline is looked up, then the gate decides
check_versions_on(text, mtext, c) ==
    LET cur == _parse_version(text)
    IN  IF cur = Raise
        THEN [decision |-> Raise, cache |-> c, lookup |-> "none", wrote |-> FALSE,
              master |-> <<"unset">>]
        ELSE LET m == _get_master_version(c, mtext)
             IN  [decision |-> IF m.value = Raise THEN Raise
                               ELSE check_versions(cur[2], m.value[2]),
                  cache |-> m.cache, lookup |-> m.lookup, wrote |-> m.wrote,
                  master |-> m.value]

\* the record of one _process run
Run(before, checked, command, code, trim, out) ==
    [before |-> before, cacheBefore |-> cache, cacheAfter |-> checked.cache,
     lookup |-> checked.lookup, wrote |-> checked.wrote, master |-> checked.master,
     decision |-> checked.decision, cmd |-> command, exit |-> code,
     trimmed |-> trim, result |-> out]

HookInit ==
    /\ currentText \in Texts
    /\ masterText \in Texts
    /\ cache = NoFile
    /\ runs = <<>>

\* _process: check_versions raises ValueError, nothing catches it
RunRaises ==
    /\ Len(runs) < MaxRuns
    /\ LET checked == check_versions_on(currentText, masterText, cache)
       IN  /\ checked.decision = Raise
           /\ cache' = checked.cache
           /\ runs' = Append(runs, Run(currentText, checked, NoCmd, "unset", FALSE,
                                       "ValueError"))
    /\ UNCHANGED <<currentText, masterText, exceptHook>>

\* _process: version is None, return True
RunAccepted ==
    /\ Len(runs) < MaxRuns
    /\ LET checked == check_versions_on(currentText, masterText, cache)
       IN  /\ checked.decision = None
           /\ cache' = checked.cache
           /\ runs' = Append(runs, Run(currentText, checked, NoCmd, "unset", FALSE,
                                       "True"))
    /\ UNCHANGED <<currentText, masterText, exceptHook>>

\* _process: check_call(bump2version --new-version=<version> patch); on exit
\* status 0 the file holds the target, its trailing blanks are trimmed and
\* True is returned; on CalledProcessError or FileNotFoundError False is
\* returned and the file is left alone
RunBumps ==
    /\ Len(runs) < MaxRuns
    /\ LET checked == check_versions_on(currentText, masterText, cache)
       IN  /\ checked.decision \notin {Raise, None}
           /\ cache' = checked.cache
           /\ \E code \in ExitCodes :
                 IF code = "0"
                 THEN /\ currentText' = <<checked.decision[2]>>
                      /\ runs' = Append(runs, Run(currentText, checked,
                                                  checked.decision[2], code, TRUE, "True"))
                 ELSE /\ currentText' = currentText
                      /\ runs' = Append(runs, Run(currentText, checked,
                                                  checked.decision[2], code, FALSE, "False"))
    /\ UNCHANGED <<masterText, exceptHook>>

HookNext == RunRaises \/ RunAccepted \/ RunBumps

HookStart == HookInit /\ IdleButHook

HookSpec == HookStart /\ [][HookNext]_vars

\* C12: a version is parsed from a text only when the pattern matches exactly
\* once. When the local file or the baseline copy has no match or several,
\* the run ends with the parse error: no decision is returned, no bump
\* subprocess is started, nothing is written; and a run ends that way only
\* then.
C12_MalformedAborts ==
    \A i \in 1..Len(runs) :
        LET r == runs[i]
            malformed == Len(r.before) # 1 \/ Len(masterText) # 1
        IN  /\ malformed <=> r.result = "ValueError"
            /\ malformed =>
                  /\ r.decision = Raise
                  /\ r.cmd = NoCmd
                  /\ r.exit = "unset"
                  /\ ~r.trimmed
                  /\ ~r.wrote
                  /\ r.cacheAfter = r.cacheBefore
            /\ r.decision # Raise =>
                  /\ r.master = Some(masterText[1])
                  /\ r.decision = check_versions(r.before[1], masterText[1])

\* a baseline copy with no match has ended the run of a well-formed file
C12_Witness ==
    /\ Len(runs) >= 1
    /\ Len(masterText) = 0
    /\ Len(runs[1].before) = 1
    /\ runs[1].lookup = "miss"
    /\ runs[1].result = "ValueError"

\* the runs that called _get_master_version, oldest first
MasterCalls == SelectSeq(runs, LAMBDA r : r.lookup # "none")

\* the first call misses, recomputes and writes; each later call returns the
\* same version from the cache and leaves the cache as it was
OnceOnFirstCall(calls) ==
    \A i \in 1..Len(calls) :
        IF i = 1
        THEN /\ calls[i].lookup = "miss"
             /\ calls[i].wrote
             /\ calls[i].cacheBefore = NoFile
             /\ calls[i].cacheAfter # NoFile
        ELSE /\ calls[i].lookup = "hit"
             /\ ~calls[i].wrote
             /\ calls[i].cacheAfter = calls[i].cacheBefore
             /\ calls[i].master = calls[1].master

\* C13 as stated: over any sequence of sequential _get_master_version calls
\* for one cache key, the baseline is recomputed and written exactly once, on
\* the first call, and every later call is served from the cache unchanged.
C13_OnceOnFirstCall == OnceOnFirstCall(MasterCalls)

\* C13, amended: that holds when the baseline copy has exactly one match, and
\* the version returned is the one in the baseline copy. When the baseline
\* copy has no match or several, every call misses, recomputes, raises the
\* parse error and writes nothing.
C13_OncePerParsedBaseline ==
    LET calls == MasterCalls
    IN  IF Len(masterText) = 1
        THEN /\ OnceOnFirstCall(calls)
             /\ \A i \in 1..Len(calls) : calls[i].master = Some(masterText[1])
        ELSE \A i \in 1..Len(calls) :
                /\ calls[i].lookup = "miss"
                /\ ~calls[i].wrote
                /\ calls[i].cacheBefore = NoFile
                /\ calls[i].cacheAfter = NoFile
                /\ calls[i].master = Raise

C13_Witness ==
    /\ Len(MasterCalls) = 3
    /\ MasterCalls[1].wrote
    /\ MasterCalls[2].lookup = "hit"
    /\ MasterCalls[3].lookup = "hit"
    /\ cache = File(str(masterText[1]))

\* C18: when a run finds a bump required, the target is bump_patch(baseline).
\* If the subprocess exits with status 0, having set the file's version to
\* the target, the run returns True and the next run against the same
\* baseline finds the version accepted, starts no subprocess and returns
\* True. If the subprocess fails (non-zero exit or executable not found) the
\* run returns False and the trailing blanks of the file are not trimmed.
C18_ConvergesInOneStep ==
    \A i \in 1..Len(runs) :
        LET r == runs[i]
        IN  r.decision \notin {Raise, None} =>
               /\ r.cmd = bump_patch(masterText[1])
               /\ r.decision = Some(r.cmd)
               /\ r.exit \in ExitCodes
               /\ r.exit = "0" =>
                     /\ r.result = "True"
                     /\ r.trimmed
                     /\ i < Len(runs) =>
                           /\ runs[i + 1].before = <<r.cmd>>
                           /\ runs[i + 1].decision = None
                           /\ runs[i + 1].cmd = NoCmd
                           /\ runs[i + 1].exit = "unset"
                           /\ runs[i + 1].result = "True"
               /\ r.exit # "0" =>
                     /\ r.result = "False"
                     /\ ~r.trimmed
                     /\ i < Len(runs) => runs[i + 1].before = r.before

\* a failed bump, then a successful one, then the accepting run
C18_Witness ==
    /\ Len(runs) = 3
    /\ runs[1].exit = "FileNotFoundError"
    /\ runs[2].exit = "0"
    /\ runs[3].decision = None
    /\ runs[3].lookup = "hit"

\* ---------------------------------------------------------------------------
\* _get_master_version called by several processes for one cache key
\* (common.py 52-61; run_bump2version.py 82-95 has the same steps)
\* ---------------------------------------------------------------------------
NumProcs == 2

Procs == 1..NumProcs

RaceInit ==
    /\ baseline \in Texts
    /\ entry = NoFile
    /\ ppc = [p \in Procs |-> "try"]
    /\ parsed = [p \in Procs |-> <<"unset">>]
    /\ seen = [p \in Procs |-> <<"unset">>]
    /\ got = [p \in Procs |-> <<"unset">>]

\* with cache.open() as fh: the file does not exist, FileNotFoundError
OpenMisses(p) ==
    /\ ppc[p] = "try"
    /\ entry = NoFile
    /\ ppc' = [ppc EXCEPT ![p] = "miss"]
    /\ UNCHANGED <<baseline, entry, parsed, seen, got, exceptRace>>

\* with cache.open() as fh: return VersionInfo.parse(fh.read()); the file
\* exists and the process gets whatever text it holds at that moment
OpenReads(p) ==
    /\ ppc[p] = "try"
    /\ entry # NoFile
    /\ seen' = [seen EXCEPT ![p] = entry]
    /\ got' = [got EXCEPT ![p] = parse(entry[2])]
    /\ ppc' = [ppc EXCEPT ![p] = IF parse(entry[2]) = Raise THEN "raised" ELSE "done"]
    /\ UNCHANGED <<baseline, entry, parsed, exceptRace>>

\* mkdir; text = git show commit:path; version = _parse_version(pattern, text)
Recompute(p) ==
    /\ ppc[p] = "miss"
    /\ parsed' = [parsed EXCEPT ![p] = _parse_version(baseline)]
    /\ IF parsed'[p] = Raise
       THEN /\ got' = [got EXCEPT ![p] = Raise]
            /\ ppc' = [ppc EXCEPT ![p] = "raised"]
       ELSE /\ got' = got
            /\ ppc' = [ppc EXCEPT ![p] = "parsed"]
    /\ UNCHANGED <<baseline, entry, seen, exceptRace>>

\* cache.open(mode="w"): the file is created, or truncated, and is empty
OpenForWriting(p) ==
    /\ ppc[p] = "parsed"
    /\ entry' = File(<<>>)
    /\ ppc' = [ppc EXCEPT ![p] = "opened"]
    /\ UNCHANGED <<baseline, parsed, seen, got, exceptRace>>

\* fh.write(str(version)), the file is closed and its buffer flushed;
\* return version
WriteAndClose(p) ==
    /\ ppc[p] = "opened"
    /\ entry' = File(str(parsed[p][2]))
    /\ got' = [got EXCEPT ![p] = parsed[p]]
    /\ ppc' = [ppc EXCEPT ![p] = "done"]
    /\ UNCHANGED <<baseline, parsed, seen, exceptRace>>

RaceNext ==
    \E p \in Procs :
        \/ OpenMisses(p)
        \/ OpenReads(p)
        \/ Recompute(p)
        \/ OpenForWriting(p)
        \/ WriteAndClose(p)

RaceStart == RaceInit /\ IdleButRace

RaceSpec == RaceStart /\ [][RaceNext]_vars

\* C14: when several processes call _get_master_version for one cache key
\* whose baseline copy is well-formed, in every interleaving no process reads
\* a cache file that exists but is empty or partly written, and every process
\* that has finished holds the baseline version.
C14_NoTornRead ==
    Len(baseline) = 1 =>
        \A p \in Procs :
            /\ seen[p] # <<"unset">> => seen[p] = File(str(baseline[1]))
            /\ ppc[p] # "raised"
            /\ ppc[p] = "done" => got[p] = Some(baseline[1])

\* ---------------------------------------------------------------------------
\* main over several filenames (pre_commit_hooks/check_settings.py,
\* hooks/check_settings.py, hooks/do_python/__init__.py)
\* ---------------------------------------------------------------------------
MaxFiles == 3

Mains == {"pre_commit_hooks.check_settings", "hooks.check_settings", "hooks.do_python"}

\* what the check of one filename can do: the check_* functions of
\* pre_commit_hooks.check_settings return None or raise ValueError;
\* check_file and process_file return True or False, or raise (ValueError
\* from a checker, FileNotFoundError from check_call)
Checks(h) ==
    IF h = "pre_commit_hooks.check_settings"
    THEN {"passes", "raises"}
    ELSE {"passes", "fails", "raises"}

MainInit ==
    /\ hook \in Mains
    /\ filenames \in UNION {[1..n -> Checks(hook)] : n \in 0..MaxFiles}
    /\ position = 1
    /\ executed = {}
    /\ status = "running"

\* for filename in args.filenames: check_...(); return 0
\* one turn of the loop: nothing catches what the check raises
CheckSettingsMain ==
    /\ hook = "pre_commit_hooks.check_settings"
    /\ status = "running"
    /\ IF position > Len(filenames)
       THEN /\ status' = "0"
            /\ UNCHANGED <<position, executed>>
       ELSE /\ executed' = executed \cup {position}
            /\ IF filenames[position] = "raises"
               THEN /\ status' = "raised"
                    /\ position' = position
               ELSE /\ status' = "running"
                    /\ position' = position + 1
    /\ UNCHANGED <<hook, filenames, exceptMain>>

\* one turn of all(f(filename) for filename in args.filenames): all stops
\* at the first False, and an exception leaves the generator and main
all_turn ==
    /\ status = "running"
    /\ IF position > Len(filenames)
       THEN /\ status' = "0"
            /\ UNCHANGED <<position, executed>>
       ELSE /\ executed' = executed \cup {position}
            /\ IF filenames[position] = "passes"
               THEN /\ status' = "running"
                    /\ position' = position + 1
               ELSE /\ status' = IF filenames[position] = "fails" THEN "1" ELSE "raised"
                    /\ position' = position
    /\ UNCHANGED <<hook, filenames, exceptMain>>

\* out = 0 if all(check_file(filename) for filename in args.filenames) else 1
HooksCheckSettingsMain ==
    /\ hook = "hooks.check_settings"
    /\ all_turn

\* result = all(process_file(file, flake8, mypy) for file in args.filenames)
DoPythonMain ==
    /\ hook = "hooks.do_python"
    /\ all_turn

MainNext == CheckSettingsMain \/ HooksCheckSettingsMain \/ DoPythonMain

MainStart == MainInit /\ IdleButMain

MainSpec == MainStart /\ [][MainNext]_vars

\* C15: when main is given several filenames and the check of one of them
\* fails, the checks of the other filenames are still executed: once main
\* has ended, the check of every filename has been executed.
C15_EveryFileChecked ==
    status \in {"0", "1", "raised"} => executed = 1..Len(filenames)

\* ---------------------------------------------------------------------------
\* Synchronising a local file with its remote copy
\* (pre_commit_hooks/check_settings.py synchronize_local_with_remote)
\* ---------------------------------------------------------------------------
MaxCalls == 3

\* the texts a settings file can hold
SyncTexts == {"t1", "t2", "t3"}

LocalFiles == {NoFile} \cup {File(t) : t \in SyncTexts}

\* synchronize_local_with_remote: the local file afterwards and whether
\* open(path, mode="w") was executed; read_remote is cached, so the text
\* compared is the text written
synchronize_local_with_remote_OnlyMissing(l, r) ==
    [local |-> IF l = NoFile THEN File(r) ELSE l, wrote |-> l = NoFile, ret |-> "None"]

synchronize_local_with_remote(l, r) ==
    LET create == IF l = NoFile THEN TRUE ELSE l[2] # r
    IN  [local |-> IF create THEN File(r) ELSE l, wrote |-> create, ret |-> "None"]

\* the record of one call
Call(done) ==
    [before |-> local, remote |-> remote', after |-> done.local, wrote |-> done.wrote,
     ret |-> done.ret]

SyncInit ==
    /\ local \in LocalFiles
    /\ remote \in SyncTexts
    /\ syncs = <<>>

\* the fragments compared next to the synchronisation
FragmentsInit ==
    /\ actual \in FlatValues
    /\ expected \in FlatValues
    /\ report = <<"unset">>
    /\ warnings = EmptyBag
    /\ frozen = <<>>
    /\ refrozen = <<>>
    /\ cpc = "start"

\* one call synchronize_local_with_remote(filename)
SynchronizeLocalWithRemote ==
    /\ Len(syncs) < MaxCalls
    /\ LET done == synchronize_local_with_remote(local, remote)
       IN  /\ local' = done.local
           /\ remote' = remote
           /\ syncs' = Append(syncs, Call(done))
    /\ UNCHANGED exceptSync

SyncNext == SynchronizeLocalWithRemote \/ CheckValueOrValues

SyncStart ==
    /\ SyncInit
    /\ FragmentsInit
    /\ VersionIdle
    /\ BumpIdle
    /\ HookIdle
    /\ RaceIdle
    /\ MainIdle
    /\ ToolsIdle
    /\ FlakeIdle

SyncSpec == SyncStart /\ [][SyncNext]_vars

\* every call wrote exactly when the file was missing or differed from the
\* remote text; after the call the file holds the remote text; a call that
\* did not write left the file as it was
WritesIffStale ==
    \A i \in 1..Len(syncs) :
        LET c == syncs[i]
        IN  /\ c.wrote <=> (c.before = NoFile \/ c.before # File(c.remote))
            /\ c.after = File(c.remote)
            /\ ~c.wrote => c.after = c.before

\* the file changes only in a synchronisation call that wrote
OnlySyncWrites ==
    local' # local => /\ Len(syncs') = Len(syncs) + 1
                      /\ syncs'[Len(syncs')].wrote
                      /\ local' = File(remote)

\* a comparison changes neither the file nor its arguments
ComparisonIsPure ==
    cpc' # cpc => /\ local' = local
                  /\ syncs' = syncs
                  /\ actual' = actual
                  /\ expected' = expected

\* C16: the only path that rewrites a local file is the synchronisation:
\* synchronize_local_with_remote writes iff the file is missing or differs
\* from the remote text, afterwards the file holds exactly the remote text,
\* and nothing is written when they are equal; check_value_or_values writes
\* no file and leaves its arguments as they were, also on a mismatch.
C16_OnlySyncRewrites ==
    /\ [](WritesIffStale)
    /\ [][OnlySyncWrites /\ ComparisonIsPure]_vars

\* a stale file was overwritten, an equal one was left, and a comparison on
\* the side ended in a mismatch
C16_Witness ==
    /\ Len(syncs) = 2
    /\ syncs[1].before \notin {NoFile, File(remote)}
    /\ syncs[1].wrote
    /\ ~syncs[2].wrote
    /\ local = File(remote)
    /\ cpc = "done"
    /\ report # Ok

\* ---------------------------------------------------------------------------
\* SettingsChecker.check_local_vs_remote (hooks/check_settings.py)
\* ---------------------------------------------------------------------------
\* check_local_vs_remote(remote): the value returned, the local file
\* afterwards and whether write_local(remote) was executed
check_local_vs_remote_KeepStale(l, r) ==
    IF l = NoFile
    THEN [local |-> File(r), wrote |-> TRUE, ret |-> "False"]
    ELSE IF l[2] = r
    THEN [local |-> l, wrote |-> FALSE, ret |-> "True"]
    ELSE [local |-> l, wrote |-> FALSE, ret |-> "False"]

check_local_vs_remote(l, r) ==
    IF l = NoFile
    THEN [local |-> File(r), wrote |-> TRUE, ret |-> "False"]
    ELSE IF l[2] = r
    THEN [local |-> l, wrote |-> FALSE, ret |-> "True"]
    ELSE [local |-> File(r), wrote |-> TRUE, ret |-> "False"]

CheckerInit ==
    /\ local \in LocalFiles
    /\ remote = ""
    /\ syncs = <<>>

\* one call self.check_local_vs_remote(remote), on any remote text
CheckLocalVsRemote ==
    /\ Len(syncs) < MaxCalls
    /\ \E r \in SyncTexts :
          LET done == check_local_vs_remote(local, r)
          IN  /\ remote' = r
              /\ local' = done.local
              /\ syncs' = Append(syncs, Call(done))
    /\ UNCHANGED exceptSync

CheckerNext == CheckLocalVsRemote

CheckerStart == CheckerInit /\ IdleButSync

CheckerSpec == CheckerStart /\ [][CheckerNext]_vars

\* C19: check_local_vs_remote returns False on every call in which it writes
\* the local file (missing, or different from remote) and True only on a
\* call in which it writes nothing because local equals remote already; so a
\* call that follows another with the same remote text returns True and
\* writes nothing.
C19_FalseIffWrote ==
    \A i \in 1..Len(syncs) :
        LET c == syncs[i]
        IN  /\ c.wrote <=> (c.before = NoFile \/ c.before # File(c.remote))
            /\ c.wrote => c.ret = "False" /\ c.after = File(c.remote)
            /\ c.ret = "True" <=> (~c.wrote /\ c.before = File(c.remote))
            /\ c.ret \in {"True", "False"}
            /\ ~c.wrote => c.after = c.before
            /\ (i > 1 /\ syncs[i - 1].remote = c.remote) =>
                  /\ c.ret = "True"
                  /\ ~c.wrote

\* an out-of-sync file was overwritten, the next call with the same remote
\* text returned True
C19_Witness ==
    /\ Len(syncs) = 2
    /\ syncs[1].before \notin {NoFile, File(syncs[1].remote)}
    /\ syncs[1].ret = "False"
    /\ syncs[2].remote = syncs[1].remote
    /\ syncs[2].ret = "True"

\* ---------------------------------------------------------------------------
\* process_file and its caller (hooks/do_python/__init__.py)
\* ---------------------------------------------------------------------------
\* the eight check_call commands of process_file, in the order of its body
Tools ==
    <<"add-trailing-comma", "autoflake", "pyupgrade", "reorder-python-imports",
      "yesqa", "black", "flake8", "mypy">>

\* a process_file call that has just been entered
Entered == [tools |-> <<>>, exits |-> <<>>, ret |-> "running"]

\* the next check_call of a process_file call e, ending as code: exit status
\* 0 goes on to the next statement, and to return True after the last;
\* CalledProcessError is caught and returns False; FileNotFoundError is not
\* caught
check_call_IgnoreFailure(e, code) ==
    LET n == Len(e.tools) + 1
    IN  [tools |-> Append(e.tools, Tools[n]),
         exits |-> Append(e.exits, code),
         ret |-> IF code = "FileNotFoundError" THEN "raised"
                 ELSE IF n = Len(Tools) THEN "True"
                 ELSE "running"]

check_call(e, code) ==
    LET n == Len(e.tools) + 1
    IN  [tools |-> Append(e.tools, Tools[n]),
         exits |-> Append(e.exits, code),
         ret |-> IF code = "0"
                 THEN IF n = Len(Tools) THEN "True" ELSE "running"
                 ELSE IF code = "FileNotFoundError" THEN "raised"
                 ELSE "False"]

ToolsInit ==
    /\ files \in 1..MaxFiles
    /\ log = <<>>

\* all(process_file(file, flake8, mypy) for file in args.filenames) takes
\* the next filename: the first, or the one after a call that returned True
ProcessFileEntered ==
    /\ Len(log) < files
    /\ log # <<>> => log[Len(log)].ret = "True"
    /\ log' = Append(log, Entered)
    /\ UNCHANGED <<files, exceptTools>>

\* the running process_file call executes its next check_call
CheckCall ==
    /\ log # <<>>
    /\ log[Len(log)].ret = "running"
    /\ \E code \in ExitCodes :
          log' = [log EXCEPT ![Len(log)] = check_call(log[Len(log)], code)]
    /\ UNCHANGED <<files, exceptTools>>

ToolsNext == ProcessFileEntered \/ CheckCall

ToolsStart == ToolsInit /\ IdleButTools

ToolsSpec == ToolsStart /\ [][ToolsNext]_vars

\* the order required of process_file
ClaimedOrder ==
    <<"add-trailing-comma", "autoflake", "pyupgrade", "reorder-python-imports",
      "yesqa", "black", "flake8", "mypy">>

NonZero == {"1", "2"}

\* C20: process_file starts its tools in the order add-trailing-comma,
\* autoflake, pyupgrade, reorder-python-imports, yesqa, black, flake8, mypy;
\* a tool is started only after every earlier tool exited with status zero;
\* the first tool that exits non-zero ends the sequence and process_file
\* returns False; process_file returns True only if all eight ran and
\* exited with status zero.
C20_ToolsInOrder ==
    \A k \in 1..Len(log) :
        LET e == log[k]
            n == Len(e.tools)
        IN  /\ n <= 8
            /\ e.tools = SubSeq(ClaimedOrder, 1, n)
            /\ Len(e.exits) = n
            /\ \A j \in 1..(n - 1) : e.exits[j] = "0"
            /\ (n > 0 /\ e.exits[n] \in NonZero) <=> e.ret = "False"
            /\ e.ret = "True" <=> (n = 8 /\ \A j \in 1..n : e.exits[j] = "0")
            /\ e.ret = "running" => n < 8

\* one file went through all eight tools, the next stopped at black
C20_Witness ==
    /\ Len(log) = 2
    /\ log[1].ret = "True"
    /\ log[2].tools = SubSeq(ClaimedOrder, 1, 6)
    /\ log[2].exits[6] = "1"
    /\ log[2].ret = "False"

\* ---------------------------------------------------------------------------
\* Flake8Checker().check() (hooks/check_settings.py)
\* ---------------------------------------------------------------------------
\* the list expected of Flake8Checker.check_hook
ExpectedDependencies ==
    <<"dlint", "flake8-absolute-import", "flake8-annotations", "flake8-bandit",
      "flake8-bugbear", "flake8-builtins", "flake8-commas", "flake8-comprehensions",
      "flake8-debugger", "flake8-eradicate", "flake8-executable", "flake8-fine-pytest",
      "flake8-fixme", "flake8-future-import", "flake8-implicit-str-concat",
      "flake8-mutable", "flake8-print", "flake8-pytest-style", "flake8-simplify",
      "flake8-string-format", "flake8-todo", "flake8-typing-imports",
      "flake8-unused-arguments", "pep8-naming">>

\* s without its i-th entry
Without(s, i) == SubSeq(s, 1, i - 1) \o SubSeq(s, i + 1, Len(s))

\* the additional_dependencies a configuration can list: the expected list,
\* the expected list with one entry dropped, with one entry added, with
\* both, and no entry at all
DependencyLists ==
    {ExpectedDependencies, <<>>, Append(ExpectedDependencies, "flake8-docstrings"),
     Append(Without(ExpectedDependencies, 1), "flake8-docstrings")}
    \cup {Without(ExpectedDependencies, i) : i \in DOMAIN ExpectedDependencies}

\* Flake8Checker.check_hook(repo): the method that compares the
\* dependencies. SettingsChecker.check calls self.check_hooks, so no call
\* reaches it.
check_hook(cur) ==
    LET extra == Range(cur) \ Range(ExpectedDependencies)
        missing == Range(ExpectedDependencies) \ Range(cur)
    IN  IF extra # {}
        THEN <<"ValueError", "flake8 has extra dependencies", extra>>
        ELSE IF missing # {}
        THEN <<"ValueError", "flake8 has missing dependencies", missing>>
        ELSE <<"True">>

\* SettingsChecker.check_hooks(repo), which Flake8Checker inherits
check_hooks(cur) == <<"True">>

\* SettingsChecker.check_local(file), which Flake8Checker inherits
check_local(l) == <<"True">>

FlakeInit ==
    /\ listed \in BOOLEAN
    /\ dependencies \in DependencyLists
    /\ dotflake8 \in LocalFiles
    /\ remoteFlake8 \in SyncTexts
    /\ verdict = <<"unset">>

\* check: the repository is not a key of repos, return True
Flake8NotListed ==
    /\ verdict = <<"unset">>
    /\ ~listed
    /\ verdict' = <<"True">>
    /\ UNCHANGED <<listed, dependencies, dotflake8, remoteFlake8, exceptFlake>>

\* check: check_hooks(repo) is True; open(self.local_path) raises
\* FileNotFoundError on a missing .flake8
Flake8LocalMissing ==
    /\ verdict = <<"unset">>
    /\ listed
    /\ check_hooks(dependencies) = <<"True">>
    /\ dotflake8 = NoFile
    /\ verdict' = <<"FileNotFoundError">>
    /\ UNCHANGED <<listed, dependencies, dotflake8, remoteFlake8, exceptFlake>>

\* check: check_hooks(repo) and check_local(file) are True, and the result
\* is that of check_local_vs_remote(remote)
Flake8Compared ==
    /\ verdict = <<"unset">>
    /\ listed
    /\ check_hooks(dependencies) = <<"True">>
    /\ dotflake8 # NoFile
    /\ check_local(dotflake8) = <<"True">>
    /\ LET done == check_local_vs_remote(dotflake8, remoteFlake8)
       IN  /\ dotflake8' = done.local
           /\ verdict' = <<done.ret>>
    /\ UNCHANGED <<listed, dependencies, remoteFlake8, exceptFlake>>

FlakeNext == Flake8NotListed \/ Flake8LocalMissing \/ Flake8Compared

FlakeStart == FlakeInit /\ IdleButFlake

FlakeSpec == FlakeStart /\ [][FlakeNext]_vars

\* C21: when the flake8 repository is listed and the additional_dependencies
\* of its hook differ from the expected list, Flake8Checker().check() does
\* not return True: it fails with an error that names the extra or the
\* missing dependencies.
C21_DependenciesChecked ==
    (/\ verdict # <<"unset">>
     /\ listed
     /\ Range(dependencies) # Range(ExpectedDependencies)) =>
        /\ verdict # <<"True">>
        /\ verdict[1] = "ValueError"
        /\ verdict[3] \in {Range(dependencies) \ Range(ExpectedDependencies),
                           Range(ExpectedDependencies) \ Range(dependencies)}
        /\ verdict[3] # {}

====
